---- MODULE Spec2Model ----
(***************************************************************************)
(* Model of deepseek_ocr_runner.py: one process that imports its           *)
(* libraries, parses its command line (main), runs the OCR pipeline        *)
(* (run_ocr) and exits.  The external library (transformers / torch) is    *)
(* the environment: each of its calls either returns or raises.            *)
(***************************************************************************)
EXTENDS Integers, Sequences, FiniteSets, TLC

(* ---------------------------------------------------------------------- *)
(* Bounds                                                                  *)
(* ---------------------------------------------------------------------- *)
\* longest command line (number of argv words after the script name)
MaxArgs == 5
\* how often the accelerator can appear / disappear during one run
MaxFlips == 1

(* ---------------------------------------------------------------------- *)
(* Program constants                                                       *)
(* ---------------------------------------------------------------------- *)
DefaultPrompt == "<image>\n<|grounding|>Extract all text from this document."
DefaultModel == "deepseek-ai/DeepSeek-OCR"
base_size == 1024
image_size == 640
\* the float literal 0.85, in hundredths
Confidence == 85

(* ---------------------------------------------------------------------- *)
(* Command line                                                            *)
(* ---------------------------------------------------------------------- *)
\* an argv word: an option string (starts with "-") or a plain word
Opt(name) == [kind |-> "opt", v |-> name]
Word(s) == [kind |-> "word", v |-> s]

ArgWords == {Word("doc.png"), Word("gone.png"),
             Opt("--prompt"), Opt("--model"), Opt("-h"), Opt("--bogus")}

RECURSIVE SeqsUpTo(_, _)
SeqsUpTo(S, n) ==
    IF n = 0 THEN {<<>>}
    ELSE LET shorter == SeqsUpTo(S, n - 1)
         IN  shorter \cup {Append(s, x) : s \in {t \in shorter : Len(t) = n - 1}, x \in S}

ArgvSet == SeqsUpTo(ArgWords, MaxArgs)

\* the Namespace under construction; image_path is required and has no default
Namespace0 == [status |-> "ok", has_image |-> FALSE, image_path |-> "",
               prompt |-> DefaultPrompt, model |-> DefaultModel, extras |-> FALSE]

\* ArgumentParser.parse_args for the three arguments main() declares:
\* words are consumed left to right; -h prints the help and exits at once;
\* an option without its value is an immediate error; unknown options and
\* surplus positionals are collected and reported at the end, as is a missing
\* image_path.
RECURSIVE ParseFrom(_, _, _)
ParseFrom(av, i, ns) ==
    IF i > Len(av)
    THEN IF ns.has_image /\ ~ns.extras THEN ns ELSE [ns EXCEPT !.status = "error"]
    ELSE LET w == av[i] IN
         IF w.kind = "word"
         THEN IF ns.has_image
              THEN ParseFrom(av, i + 1, [ns EXCEPT !.extras = TRUE])
              ELSE ParseFrom(av, i + 1, [ns EXCEPT !.has_image = TRUE, !.image_path = w.v])
         ELSE IF w.v = "-h"
              THEN [ns EXCEPT !.status = "help"]
         ELSE IF w.v \in {"--prompt", "--model"}
              THEN IF i < Len(av) /\ av[i + 1].kind = "word"
                   THEN IF w.v = "--prompt"
                        THEN ParseFrom(av, i + 2, [ns EXCEPT !.prompt = av[i + 1].v])
                        ELSE ParseFrom(av, i + 2, [ns EXCEPT !.model = av[i + 1].v])
                   ELSE [ns EXCEPT !.status = "error"]
         ELSE ParseFrom(av, i + 1, [ns EXCEPT !.extras = TRUE])

parse_args(av) == ParseFrom(av, 1, Namespace0)

(* ---------------------------------------------------------------------- *)
(* Python values and str()                                                 *)
(* ---------------------------------------------------------------------- *)
PyStr(s) == [ty |-> "str", s |-> s, i |-> 0]
PyNone == [ty |-> "NoneType", s |-> "", i |-> 0]
PyInt(n) == [ty |-> "int", s |-> "", i |-> n]
PyBool(b) == [ty |-> "bool", s |-> "", i |-> IF b THEN 1 ELSE 0]
\* an object of a library class whose __str__ yields s
PyObj(s) == [ty |-> "object", s |-> s, i |-> 0]
Unset == [ty |-> "unset", s |-> "", i |-> 0]

Digit(d) ==
    CASE d = 0 -> "0" [] d = 1 -> "1" [] d = 2 -> "2" [] d = 3 -> "3" [] d = 4 -> "4"
      [] d = 5 -> "5" [] d = 6 -> "6" [] d = 7 -> "7" [] d = 8 -> "8" [] d = 9 -> "9"

RECURSIVE NatToStr(_)
NatToStr(n) == IF n < 10 THEN Digit(n) ELSE NatToStr(n \div 10) \o Digit(n % 10)

\* str(x)
str(x) ==
    CASE x.ty = "str" -> x.s
      [] x.ty = "NoneType" -> "None"
      [] x.ty = "bool" -> IF x.i = 1 THEN "True" ELSE "False"
      [] x.ty = "int" -> IF x.i < 0 THEN "-" \o NatToStr(-x.i) ELSE NatToStr(x.i)
      [] x.ty = "object" -> x.s

isinstance_str(x) == x.ty = "str"

\* TextOf without the coercion of a non-string result
TextOf_NoCoercion(r) == r.s

\* line 53: result if isinstance(result, str) else str(result)
TextOf(r) == IF isinstance_str(r) THEN r.s ELSE str(r)

\* what model.infer can hand back
InferResults == {PyStr("Invoice 42"), PyStr(""), PyNone, PyInt(0), PyInt(-105),
                 PyBool(TRUE), PyObj("page text")}

(* ---------------------------------------------------------------------- *)
(* json.dumps, as a sequence of lexical tokens                             *)
(* ---------------------------------------------------------------------- *)
P(c) == [t |-> "punct", v |-> c]
S(s) == [t |-> "string", v |-> s]
N(s) == [t |-> "number", v |-> s]
Raw(s) == [t |-> "raw", v |-> s]

\* float.__repr__ of h/100 for 0 <= h < 100
FloatRepr(h) ==
    IF h = 0 THEN "0.0"
    ELSE IF h % 10 = 0 THEN "0." \o Digit(h \div 10)
    ELSE "0." \o Digit(h \div 10) \o Digit(h % 10)

\* json.dumps(output), keys in insertion order
DumpsOutput(o) ==
    << P("{"), S("text"), P(":"), S(o.text), P(","),
       S("confidence"), P(":"), N(FloatRepr(o.confidence)), P(","),
       S("metadata"), P(":"),
           P("{"), S("model"), P(":"), S(o.metadata.model), P(","),
                   S("device"), P(":"), S(o.metadata.device), P("}"),
       P("}") >>

\* json.dumps(error_output)
DumpsError(e) ==
    << P("{"), S("error"), P(":"), S(e.error), P(","),
       S("type"), P(":"), S(e.type), P("}") >>

\* index of the value of the key path `path` in the token line, 0 if absent;
\* d is the nesting depth at token i, m the number of path components matched
RECURSIVE Locate(_, _, _, _, _)
Locate(line, path, i, d, m) ==
    IF i > Len(line) THEN 0
    ELSE LET tok == line[i] IN
         IF tok = P("{") THEN Locate(line, path, i + 1, d + 1, m)
         ELSE IF tok = P("}")
              THEN Locate(line, path, i + 1, d - 1, IF m >= d - 1 /\ d >= 2 THEN d - 2 ELSE m)
         ELSE IF /\ tok.t = "string" /\ i + 1 < Len(line) /\ line[i + 1] = P(":")
                 /\ d = m + 1 /\ m < Len(path) /\ tok.v = path[m + 1]
              THEN IF m + 1 = Len(path) THEN i + 2
                   ELSE IF line[i + 2] = P("{") THEN Locate(line, path, i + 2, d, m + 1)
                   ELSE Locate(line, path, i + 2, d, m)
         ELSE Locate(line, path, i + 1, d, m)

HasKey(line, path) == Locate(line, path, 1, 0, 0) # 0
JsonGet(line, path) == line[Locate(line, path, 1, 0, 0)]

\* nesting depth of token i
DepthAt(line, i) ==
    Cardinality({j \in 1..(i - 1) : line[j] = P("{")})
        - Cardinality({j \in 1..(i - 1) : line[j] = P("}")})

\* the keys of the outermost object
TopKeys(line) ==
    {line[i].v : i \in {j \in 1..(Len(line) - 1) :
        line[j].t = "string" /\ line[j + 1] = P(":") /\ DepthAt(line, j) = 1}}

IsJsonObject(line) ==
    /\ Len(line) >= 2
    /\ line[1] = P("{") /\ line[Len(line)] = P("}")
    /\ \A i \in 1..Len(line) : line[i].t # "raw"
    /\ \A i \in 2..Len(line) : DepthAt(line, i) >= 1

\* the two output shapes
IsSuccessShape(line) ==
    IsJsonObject(line) /\ TopKeys(line) = {"text", "confidence", "metadata"}
IsErrorShape(line) ==
    IsJsonObject(line) /\ TopKeys(line) = {"error", "type"}

(* ---------------------------------------------------------------------- *)
(* Exceptions                                                              *)
(* ---------------------------------------------------------------------- *)
Exc(cls, msg, code) == [cls |-> cls, msg |-> msg, code |-> code]
NoExc == Exc("", "", 0)

\* classes deriving from BaseException but not from Exception
NonExceptionClasses == {"KeyboardInterrupt", "SystemExit", "GeneratorExit"}

\* `except Exception` matches e
CaughtByExceptException(e) == e.cls \notin NonExceptionClasses

\* what a call into the external library can raise
Raisable == {Exc("OSError", "weights not found", 0),
             Exc("RuntimeError", "CUDA out of memory", 0),
             Exc("KeyboardInterrupt", "", 0),
             Exc("SystemExit", "3", 3)}

ImportErrors == {Exc("ModuleNotFoundError", "No module named 'torch'", 0)}

\* the file system: the image files that exist
FileExists(path) == path = "doc.png"
NoSuchFile(path) ==
    Exc("FileNotFoundError", "[Errno 2] No such file or directory: '" \o path \o "'", 0)

(* ---------------------------------------------------------------------- *)
(* State                                                                   *)
(* ---------------------------------------------------------------------- *)
VARIABLES
    pc,              \* position of the process
    argv,            \* the command line
    args,            \* the Namespace returned by parser.parse_args()
    image_path,      \* run_ocr's parameters
    prompt,
    model_path,
    cuda_available,  \* environment: an accelerated device is present now
    flips,           \* how often the environment has changed
    tokenizer,       \* run_ocr's locals
    model,
    grad_enabled,    \* torch's gradient-tracking switch
    result,
    output,
    exc,             \* the exception raised, NoExc if none
    stdout,          \* the lines written to each stream
    stderr,
    exit_code,       \* main's local; -1 while unassigned
    exit_status,     \* the process exit status; -1 while running
    calls            \* the calls made into the external library, in order

vars == << pc, argv, args, image_path, prompt, model_path, cuda_available, flips,
           tokenizer, model, grad_enabled, result, output, exc, stdout, stderr,
           exit_code, exit_status, calls >>

envVars == << cuda_available, flips >>
mainVars == << argv, args, exit_code, exit_status >>
paramVars == << image_path, prompt, model_path >>
streamVars == << stdout, stderr >>

NoTokenizer == [loaded |-> FALSE, path |-> "", trust_remote_code |-> FALSE]
NoModel == [loaded |-> FALSE, path |-> "", trust_remote_code |-> FALSE,
            torch_dtype |-> "", device |-> "cpu", training |-> FALSE]
NoOutput == [text |-> "", confidence |-> 0, metadata |-> [model |-> "", device |-> ""]]

Init ==
    /\ pc = "import"
    /\ argv \in ArgvSet
    /\ args = Namespace0
    /\ image_path = "" /\ prompt = "" /\ model_path = ""
    /\ cuda_available \in BOOLEAN
    /\ flips = 0
    /\ tokenizer = NoTokenizer
    /\ model = NoModel
    /\ grad_enabled = TRUE
    /\ result = Unset
    /\ output = NoOutput
    /\ exc = NoExc
    /\ stdout = << >> /\ stderr = << >>
    /\ exit_code = -1 /\ exit_status = -1
    /\ calls = << >>

\* RaiseInTry that runs the failed statement once more after the first failure
RaiseInTry_RetryOnce(e) ==
    /\ exc' = e
    /\ pc' = IF exc = NoExc /\ CaughtByExceptException(e) THEN pc
             ELSE IF CaughtByExceptException(e) THEN "except" ELSE "uncaught"

\* an exception e leaves a statement of run_ocr's try block (lines 26-70)
RaiseInTry(e) ==
    /\ exc' = e
    /\ pc' = IF CaughtByExceptException(e) THEN "except" ELSE "uncaught"

(* ---------------------------------------------------------------------- *)
(* The environment                                                         *)
(* ---------------------------------------------------------------------- *)
\* the accelerated device appears or disappears while the process runs
EnvFlip ==
    /\ pc # "done"
    /\ flips < MaxFlips
    /\ cuda_available' = ~cuda_available
    /\ flips' = flips + 1
    /\ UNCHANGED << pc, mainVars, paramVars, tokenizer, model, grad_enabled, result,
                    output, exc, streamVars, calls >>

(* ---------------------------------------------------------------------- *)
(* Module level and main()                                                 *)
(* ---------------------------------------------------------------------- *)
\* lines 7-11: the imports
Import ==
    /\ pc = "import"
    /\ \/ pc' = "parse" /\ exc' = exc
       \/ \E e \in ImportErrors : exc' = e /\ pc' = "uncaught"
    /\ UNCHANGED << mainVars, paramVars, envVars, tokenizer, model, grad_enabled,
                    result, output, streamVars, calls >>

\* lines 74-81: build the parser and parse the command line; argparse itself
\* reports a usage error on stderr and exits with status 2, and prints the
\* help on stdout and exits with status 0
ParseArgs ==
    /\ pc = "parse"
    /\ LET ns == parse_args(argv) IN
       \/ /\ ns.status = "ok"
          /\ args' = ns
          /\ pc' = "call"
          /\ UNCHANGED << streamVars, exit_status >>
       \/ /\ ns.status = "error"
          /\ stderr' = stderr \o << <<Raw("usage")>>, <<Raw("error")>> >>
          /\ exit_status' = 2
          /\ pc' = "done"
          /\ UNCHANGED << args, stdout >>
       \/ /\ ns.status = "help"
          /\ stdout' = Append(stdout, <<Raw("help")>>)
          /\ exit_status' = 0
          /\ pc' = "done"
          /\ UNCHANGED << args, stderr >>
    /\ UNCHANGED << argv, exit_code, paramVars, envVars, tokenizer, model, grad_enabled,
                    result, output, exc, calls >>

\* CallRunOcr with the prompt and the model identifier exchanged
CallRunOcr_SwappedArgs ==
    /\ pc = "call"
    /\ image_path' = args.image_path
    /\ prompt' = args.model
    /\ model_path' = args.prompt
    /\ pc' = "tokenizer"
    /\ UNCHANGED << mainVars, envVars, tokenizer, model, grad_enabled, result, output,
                    exc, streamVars, calls >>

\* line 83, the call: run_ocr(args.image_path, args.prompt, args.model)
CallRunOcr ==
    /\ pc = "call"
    /\ image_path' = args.image_path
    /\ prompt' = args.prompt
    /\ model_path' = args.model
    /\ pc' = "tokenizer"
    /\ UNCHANGED << mainVars, envVars, tokenizer, model, grad_enabled, result, output,
                    exc, streamVars, calls >>

\* line 83, the assignment, and line 84: sys.exit(exit_code)
SysExit ==
    /\ pc = "sys_exit"
    /\ exit_status' = exit_code
    /\ pc' = "done"
    /\ UNCHANGED << argv, args, exit_code, paramVars, envVars, tokenizer, model,
                    grad_enabled, result, output, exc, streamVars, calls >>

\* lines 87-88: an exception that reaches the top of the script ends the
\* process: SystemExit with its code and no output, KeyboardInterrupt and
\* every other exception with a traceback
Uncaught ==
    /\ pc = "uncaught"
    /\ \/ /\ exc.cls = "SystemExit"
          /\ exit_status' = exc.code
          /\ stderr' = stderr
       \/ /\ exc.cls = "KeyboardInterrupt"
          /\ exit_status' = 130
          /\ stderr' = Append(stderr, <<Raw("Traceback")>>)
       \/ /\ exc.cls \notin {"SystemExit", "KeyboardInterrupt"}
          /\ exit_status' = 1
          /\ stderr' = Append(stderr, <<Raw("Traceback")>>)
    /\ pc' = "done"
    /\ UNCHANGED << argv, args, exit_code, paramVars, envVars, tokenizer, model,
                    grad_enabled, result, output, exc, stdout, calls >>

(* ---------------------------------------------------------------------- *)
(* run_ocr                                                                 *)
(* ---------------------------------------------------------------------- *)
\* line 28: tokenizer = AutoTokenizer.from_pretrained(model_path, trust_remote_code=True)
LoadTokenizer ==
    /\ pc = "tokenizer"
    /\ calls' = Append(calls, [op |-> "AutoTokenizer.from_pretrained",
                               path |-> model_path, trust_remote_code |-> TRUE])
    /\ \/ /\ tokenizer' = [loaded |-> TRUE, path |-> model_path, trust_remote_code |-> TRUE]
          /\ pc' = "model"
          /\ exc' = exc
       \/ /\ \E e \in Raisable : RaiseInTry(e)
          /\ tokenizer' = tokenizer
    /\ UNCHANGED << mainVars, paramVars, envVars, model, grad_enabled, result, output,
                    streamVars >>

\* lines 29-33: model = AutoModel.from_pretrained(model_path, trust_remote_code=True,
\* torch_dtype=torch.bfloat16); the mode the library leaves the module in is its own choice
LoadModel ==
    /\ pc = "model"
    /\ calls' = Append(calls, [op |-> "AutoModel.from_pretrained", path |-> model_path,
                               trust_remote_code |-> TRUE, torch_dtype |-> "bfloat16"])
    /\ \/ /\ \E tr \in BOOLEAN :
                model' = [loaded |-> TRUE, path |-> model_path, trust_remote_code |-> TRUE,
                          torch_dtype |-> "bfloat16", device |-> "cpu", training |-> tr]
          /\ pc' = "cuda_query"
          /\ exc' = exc
       \/ /\ \E e \in Raisable : RaiseInTry(e)
          /\ model' = model
    /\ UNCHANGED << mainVars, paramVars, envVars, tokenizer, grad_enabled, result, output,
                    streamVars >>

\* line 36: if torch.cuda.is_available():
CudaQuery ==
    /\ pc = "cuda_query"
    /\ calls' = Append(calls, [op |-> "torch.cuda.is_available", ret |-> cuda_available])
    /\ pc' = IF cuda_available THEN "cuda_move" ELSE "eval"
    /\ UNCHANGED << mainVars, paramVars, envVars, tokenizer, model, grad_enabled, result,
                    output, exc, streamVars >>

\* line 37: model = model.cuda()
CudaMove ==
    /\ pc = "cuda_move"
    /\ calls' = Append(calls, [op |-> "model.cuda"])
    /\ \/ /\ model' = [model EXCEPT !.device = "cuda"]
          /\ pc' = "eval"
          /\ exc' = exc
       \/ /\ \E e \in Raisable : RaiseInTry(e)
          /\ model' = model
    /\ UNCHANGED << mainVars, paramVars, envVars, tokenizer, grad_enabled, result, output,
                    streamVars >>

\* line 39: model = model.eval()
Eval ==
    /\ pc = "eval"
    /\ calls' = Append(calls, [op |-> "model.eval"])
    /\ \/ /\ model' = [model EXCEPT !.training = FALSE]
          /\ pc' = "no_grad"
          /\ exc' = exc
       \/ /\ \E e \in Raisable : RaiseInTry(e)
          /\ model' = model
    /\ UNCHANGED << mainVars, paramVars, envVars, tokenizer, grad_enabled, result, output,
                    streamVars >>

\* line 42: with torch.no_grad(): entering the block switches gradient tracking off
NoGradEnter ==
    /\ pc = "no_grad"
    /\ grad_enabled' = FALSE
    /\ pc' = "infer"
    /\ UNCHANGED << mainVars, paramVars, envVars, tokenizer, model, result, output, exc,
                    streamVars, calls >>

\* InferCall with the two sizing parameters exchanged
InferCall_SwappedSizes(tok, m, p, img, grad) ==
    [op |-> "model.infer", tokenizer |-> tok, model |-> m, prompt |-> p, image_file |-> img,
     base_size |-> image_size, image_size |-> base_size, grad_enabled |-> grad]

\* lines 43-49: the arguments of the infer call
InferCall(tok, m, p, img, grad) ==
    [op |-> "model.infer", tokenizer |-> tok, model |-> m, prompt |-> p, image_file |-> img,
     base_size |-> base_size, image_size |-> image_size, grad_enabled |-> grad]

\* lines 42-49: result = model.infer(...) inside the no_grad block; leaving the
\* block, normally or by an exception, restores gradient tracking.  The
\* library cannot read an image file that does not exist.
Infer ==
    /\ pc = "infer"
    /\ calls' = Append(calls, InferCall(tokenizer, model, prompt, image_path, grad_enabled))
    /\ grad_enabled' = TRUE
    /\ \/ /\ FileExists(image_path)
          /\ \E r \in InferResults : result' = r
          /\ pc' = "build"
          /\ exc' = exc
       \/ /\ ~FileExists(image_path)
          /\ RaiseInTry(NoSuchFile(image_path))
          /\ result' = result
       \/ /\ \E e \in Raisable : RaiseInTry(e)
          /\ result' = result
    /\ UNCHANGED << mainVars, paramVars, envVars, tokenizer, model, output, streamVars >>

\* DeviceName without the availability test
DeviceName_AlwaysCpu(available) == "cpu"

\* line 57: "cuda" if torch.cuda.is_available() else "cpu"
DeviceName(available) == IF available THEN "cuda" ELSE "cpu"

\* lines 52-59: the success payload
BuildOutput ==
    /\ pc = "build"
    /\ \/ /\ output' = [text |-> TextOf(result),
                        confidence |-> Confidence,
                        metadata |-> [model |-> model_path,
                                      device |-> DeviceName(cuda_available)]]
          /\ calls' = Append(calls, [op |-> "torch.cuda.is_available",
                                     ret |-> cuda_available])
          /\ pc' = "print"
          /\ exc' = exc
       \/ \* str(result) runs the __str__ of a library object, which can raise
          /\ result.ty = "object"
          /\ \E e \in Raisable : RaiseInTry(e)
          /\ UNCHANGED << output, calls >>
    /\ UNCHANGED << mainVars, paramVars, envVars, tokenizer, model, grad_enabled, result,
                    streamVars >>

\* line 61: print(json.dumps(output)); a failed write leaves nothing on the stream
PrintOutput ==
    /\ pc = "print"
    /\ \/ /\ stdout' = Append(stdout, DumpsOutput(output))
          /\ pc' = "return"
          /\ exc' = exc
       \/ /\ \E e \in Raisable : RaiseInTry(e)
          /\ stdout' = stdout
    /\ UNCHANGED << mainVars, paramVars, envVars, tokenizer, model, grad_enabled, result,
                    output, stderr, calls >>

\* line 62: return 0
Return0 ==
    /\ pc = "return"
    /\ exit_code' = 0
    /\ pc' = "sys_exit"
    /\ UNCHANGED << argv, args, exit_status, paramVars, envVars, tokenizer, model,
                    grad_enabled, result, output, exc, streamVars, calls >>

\* ErrorOutput with the class name of the handler's clause instead of the failure's
ErrorOutput_FixedType(e) == [error |-> e.msg, type |-> "Exception"]

\* lines 65-68: error_output
ErrorOutput(e) == [error |-> e.msg, type |-> e.cls]

\* lines 64-70: except Exception as e: print the envelope on stderr, return 1
Except ==
    /\ pc = "except"
    /\ stderr' = Append(stderr, DumpsError(ErrorOutput(exc)))
    /\ exit_code' = 1
    /\ pc' = "sys_exit"
    /\ UNCHANGED << argv, args, exit_status, paramVars, envVars, tokenizer, model,
                    grad_enabled, result, output, exc, stdout, calls >>

(* ---------------------------------------------------------------------- *)
(* Specification                                                           *)
(* ---------------------------------------------------------------------- *)
Next ==
    \/ Import
    \/ ParseArgs
    \/ CallRunOcr
    \/ LoadTokenizer
    \/ LoadModel
    \/ CudaQuery
    \/ CudaMove
    \/ Eval
    \/ NoGradEnter
    \/ Infer
    \/ BuildOutput
    \/ PrintOutput
    \/ Return0
    \/ Except
    \/ SysExit
    \/ Uncaught
    \/ EnvFlip

Spec == Init /\ [][Next]_vars

TypeOK ==
    /\ pc \in {"import", "parse", "call", "tokenizer", "model", "cuda_query", "cuda_move",
               "eval", "no_grad", "infer", "build", "print", "return", "except",
               "sys_exit", "uncaught", "done"}
    /\ exit_status \in {-1, 0, 1, 2, 3, 130}
    /\ exit_code \in {-1, 0, 1}
    /\ (pc = "done") = (exit_status # -1)

(* ---------------------------------------------------------------------- *)
(* Properties                                                              *)
(* ---------------------------------------------------------------------- *)
Terminated == pc = "done"

\* the positions of the lines of each shape on the two streams
SuccessLines == {i \in 1..Len(stdout) : IsSuccessShape(stdout[i])}
ErrorLines == {i \in 1..Len(stderr) : IsErrorShape(stderr[i])}

\* the positions in the call log of the calls of operation op
CallsOf(op) == {i \in 1..Len(calls) : calls[i].op = op}

\* a statement of run_ocr raised an exception of a class derived from Exception
\* (the imports run before run_ocr and leave the call log empty)
StepFailed ==
    /\ exc # NoExc
    /\ calls # << >>
    /\ exc.cls \notin {"KeyboardInterrupt", "SystemExit"}

\* run_ocr was entered and nothing raised
AllStepsSucceeded == exc = NoExc /\ calls # << >>

\* C1: when the process has ended, exactly one of the two output shapes has
\* been produced: the success object on standard output or the error object
\* on standard error, never both and never neither.
C1_ExactlyOneShape ==
    Terminated => Cardinality(SuccessLines) + Cardinality(ErrorLines) = 1

C3_EnvelopeBeforeExit ==
    (Terminated /\ SuccessLines = {}) => ErrorLines # {}

\* C4: the exit status is 0 or 1, and it is 0 exactly when the success
\* payload was written to standard output.
C4_ExitStatus ==
    Terminated =>
        /\ exit_status \in {0, 1}
        /\ (exit_status = 0) <=> (SuccessLines # {})

\* what Python's str() gives for the values infer returns in this model
ExpectedText(r) ==
    CASE r = PyStr("Invoice 42") -> "Invoice 42"
      [] r = PyStr("") -> ""
      [] r = PyNone -> "None"
      [] r = PyInt(0) -> "0"
      [] r = PyInt(-105) -> "-105"
      [] r = PyBool(TRUE) -> "True"
      [] r = PyObj("page text") -> "page text"

C7_OneInferCall ==
    /\ Cardinality(CallsOf("model.infer")) <= 1
    /\ SuccessLines # {} => Cardinality(CallsOf("model.infer")) = 1
    /\ \A i \in CallsOf("model.infer") :
          LET c == calls[i] IN
          /\ \E j \in 1..(i - 1) : calls[j].op = "AutoTokenizer.from_pretrained"
          /\ \E j \in 1..(i - 1) : calls[j].op = "AutoModel.from_pretrained"
          /\ \E j \in 1..(i - 1) : calls[j].op = "model.eval"
          /\ c.tokenizer.loaded /\ c.model.loaded
          /\ \A j \in 1..(i - 1) :
                (calls[j].op = "torch.cuda.is_available" /\ calls[j].ret) =>
                    /\ \E k \in (j + 1)..(i - 1) : calls[k].op = "model.cuda"
                    /\ c.model.device = "cuda"
          /\ ~c.model.training
          /\ ~c.grad_enabled
          /\ c.base_size = 1024
          /\ c.image_size = 640

C7_Witness ==
    /\ Terminated
    /\ SuccessLines = {1}
    /\ \E i \in CallsOf("model.infer") :
          calls[i].model.device = "cuda" /\ ~calls[i].grad_enabled

\* the command line read directly: the value after the last occurrence of an
\* option, and the one word that is not the value of an option
OptionIndexes(av, name) == {i \in 1..Len(av) : av[i] = Opt(name)}
LastIndex(I) == CHOOSE i \in I : \A j \in I : j <= i
GivenOrDefault(av, name, default) ==
    IF OptionIndexes(av, name) = {} THEN default
    ELSE av[LastIndex(OptionIndexes(av, name)) + 1].v
GivenImage(av) ==
    av[CHOOSE i \in 1..Len(av) :
          /\ av[i].kind = "word"
          /\ i = 1 \/ av[i - 1] \notin {Opt("--prompt"), Opt("--model")}].v

\* C8: without --prompt the prompt passed to infer is the default prompt
\* verbatim, without --model the model identifier is the default one; the
\* image path, prompt and model identifier of the command line reach the
\* load and infer calls unchanged and the model identifier reappears
\* unchanged in metadata.model.
C8_ArgumentsReachCalls ==
    LET p == GivenOrDefault(argv, "--prompt",
                 "<image>\n<|grounding|>Extract all text from this document.")
        m == GivenOrDefault(argv, "--model", "deepseek-ai/DeepSeek-OCR")
    IN  /\ \A i \in CallsOf("AutoTokenizer.from_pretrained") : calls[i].path = m
        /\ \A i \in CallsOf("AutoModel.from_pretrained") : calls[i].path = m
        /\ \A i \in CallsOf("model.infer") :
              /\ calls[i].prompt = p
              /\ calls[i].image_file = GivenImage(argv)
              /\ calls[i].tokenizer.path = m
              /\ calls[i].model.path = m
        /\ \A i \in SuccessLines : JsonGet(stdout[i], <<"metadata", "model">>) = S(m)

C8_Witness ==
    /\ Terminated
    /\ SuccessLines = {1}
    /\ OptionIndexes(argv, "--prompt") = {}
    /\ OptionIndexes(argv, "--model") # {}
    /\ \E i \in CallsOf("model.infer") :
          calls[i].prompt = "<image>\n<|grounding|>Extract all text from this document."

\* C9: once a step of run_ocr has failed, no later step of the pipeline runs
\* and nothing more reaches standard output: the call log, the locals and
\* standard output stay as they are and the process only goes on to the
\* handler and the exit; and no step is ever executed twice (the
\* availability query, made on lines 36 and 57, at most twice).
C9_FailureAborts ==
    /\ [][exc # NoExc =>
            /\ calls' = calls
            /\ stdout' = stdout
            /\ << tokenizer, model, result, output, exc >>' =
                    << tokenizer, model, result, output, exc >>
            /\ pc' \in {"except", "uncaught", "sys_exit", "done"}]_vars
    /\ [](\A i, j \in 1..Len(calls) :
            (i < j /\ calls[i].op = calls[j].op) =>
                /\ calls[i].op = "torch.cuda.is_available"
                /\ Cardinality(CallsOf("torch.cuda.is_available")) <= 2)
    /\ [](Terminated /\ StepFailed => ErrorLines = {1} /\ exit_code = 1)

C9_Witness ==
    /\ Terminated
    /\ exc.cls = "OSError"
    /\ Len(calls) = 1
    /\ calls[1].op = "AutoTokenizer.from_pretrained"
    /\ exit_status = 1

\* C10: in every success payload metadata.device names the device the model
\* was placed on for the inference call, whatever the two availability
\* queries (line 36 and line 57) answered.
C10_DeviceIsPlacement ==
    \A i \in SuccessLines :
        JsonGet(stdout[i], <<"metadata", "device">>) = S(model.device)

====
